---- MODULE Spec2Model ----
(***************************************************************************)
(* Payment history reconciliation of breez (payments.go): the memo codec,  *)
(* the sent payment synchronizer, the invoice settlement watcher, the      *)
(* pending HTLC resolver and the payment list assembler.                   *)
(*                                                                         *)
(* Strings are sequences of bytes (0..255); a hex string is a sequence of  *)
(* the bytes of its digits.                                                *)
(***************************************************************************)
EXTENDS Integers, Sequences, FiniteSets, TLC

\* ------------------------------------------------------------------ bounds
MaxTokens == 5
MaxAmount == 1
MaxDate == 2
MaxLedger == 2
MaxHtlcs == 1

\* ------------------------------------------------------- strings of bytes
\* the delimiter " | " of the legacy memo format
Delim == <<32, 124, 32>>

HasPrefixAt(s, sep, i) ==
    /\ i + Len(sep) - 1 <= Len(s)
    /\ SubSeq(s, i, i + Len(sep) - 1) = sep

\* strings.Count(s, sep): the non-overlapping occurrences of sep, from the left
RECURSIVE CountFrom(_, _, _)
CountFrom(s, sep, i) ==
    IF i + Len(sep) - 1 > Len(s) THEN 0
    ELSE IF HasPrefixAt(s, sep, i) THEN 1 + CountFrom(s, sep, i + Len(sep))
    ELSE CountFrom(s, sep, i + 1)

Count(s, sep) == CountFrom(s, sep, 1)

\* strings.Split(s, sep): the pieces between the occurrences Count counts
RECURSIVE SplitFrom(_, _, _, _)
SplitFrom(s, sep, start, i) ==
    IF i + Len(sep) - 1 > Len(s) THEN <<SubSeq(s, start, Len(s))>>
    ELSE IF HasPrefixAt(s, sep, i)
         THEN <<SubSeq(s, start, i - 1)>> \o SplitFrom(s, sep, i + Len(sep), i + Len(sep))
    ELSE SplitFrom(s, sep, start, i + 1)

Split(s, sep) == SplitFrom(s, sep, 1, 1)

Drop(b, k) == SubSeq(b, k + 1, Len(b))

\* ------------------------------------------------- protobuf wire format
WireVarint == 0
WireFixed64 == 1
WireBytes == 2
WireStartGroup == 3
WireEndGroup == 4
WireFixed32 == 5

\* length of the varint at the head of b (0: none, the input ends inside it)
RECURSIVE VarintLen(_, _)
VarintLen(b, i) ==
    IF i > Len(b) \/ i > 10 THEN 0
    ELSE IF b[i] < 128 THEN i
    ELSE VarintLen(b, i + 1)

RECURSIVE VarintValue(_, _)
VarintValue(b, n) ==
    IF n = 0 THEN 0 ELSE (b[1] % 128) + 128 * VarintValue(Drop(b, 1), n - 1)

\* decodeVarint: the value and the number of bytes read (n = 0 on failure)
DecodeVarint(b) ==
    LET n == VarintLen(b, 1) IN [v |-> VarintValue(b, n), n |-> n]

\* findEndGroup: the index just past the end-group tag that closes the group
\* opened before b, or -1
RECURSIVE FindEndGroup(_, _, _)
FindEndGroup(b, i, depth) ==
    LET t == DecodeVarint(Drop(b, i)) IN
    IF t.n = 0 THEN -1
    ELSE LET j    == i + t.n
             wire == t.v % 8
             arg  == DecodeVarint(Drop(b, j))
         IN CASE wire = WireVarint ->
                   IF arg.n = 0 THEN -1 ELSE FindEndGroup(b, j + arg.n, depth)
              [] wire = WireFixed32 ->
                   IF Len(b) - 4 < j THEN -1 ELSE FindEndGroup(b, j + 4, depth)
              [] wire = WireFixed64 ->
                   IF Len(b) - 8 < j THEN -1 ELSE FindEndGroup(b, j + 8, depth)
              [] wire = WireBytes ->
                   IF arg.n = 0 \/ Len(b) - (j + arg.n) < arg.v THEN -1
                   ELSE FindEndGroup(b, j + arg.n + arg.v, depth)
              [] wire = WireStartGroup -> FindEndGroup(b, j, depth + 1)
              [] wire = WireEndGroup ->
                   IF depth = 1 THEN j ELSE FindEndGroup(b, j, depth - 1)
              [] OTHER -> -1

\* skipField: the number of bytes of an unknown field's payload, or -1
SkipField(b, wire) ==
    LET arg == DecodeVarint(b) IN
    CASE wire = WireVarint -> IF arg.n = 0 THEN -1 ELSE arg.n
      [] wire = WireFixed32 -> IF Len(b) < 4 THEN -1 ELSE 4
      [] wire = WireFixed64 -> IF Len(b) < 8 THEN -1 ELSE 8
      [] wire = WireBytes ->
            IF arg.n = 0 \/ Len(b) - arg.n < arg.v THEN -1 ELSE arg.n + arg.v
      [] wire = WireStartGroup -> FindEndGroup(b, 0, 1)
      [] OTHER -> -1

\* data.InvoiceMemo (messages.proto), the zero message
EmptyMemo ==
    [Description |-> <<>>, Amount |-> 0, PayeeName |-> <<>>, PayeeImageURL |-> <<>>,
     PayerName |-> <<>>, PayerImageURL |-> <<>>, TransferRequest |-> FALSE,
     Expiry |-> 0]

\* the field numbers of data.InvoiceMemo and the wire type each expects
StringField(tag) ==
    CASE tag = 1 -> "Description"
      [] tag = 3 -> "PayeeName"
      [] tag = 4 -> "PayeeImageURL"
      [] tag = 5 -> "PayerName"
      [] tag = 6 -> "PayerImageURL"
      [] OTHER -> ""

IntField(tag) ==
    CASE tag = 2 -> "Amount"
      [] tag = 8 -> "Expiry"
      [] OTHER -> ""

BoolFieldTag == 7

\* proto.Unmarshal's loop over the fields of b, merging into m.  A field of
\* the message with the wire type it expects is stored; any other field is
\* skipped as unknown.  On an error the fields stored so far stay in m.
RECURSIVE UnmarshalMerge(_, _)
UnmarshalMerge(b, m) ==
    IF b = <<>> THEN [ok |-> TRUE, memo |-> m]
    ELSE
    LET t == DecodeVarint(b) IN
    IF t.n = 0 THEN [ok |-> FALSE, memo |-> m]
    ELSE
    LET rest == Drop(b, t.n)
        tag  == t.v \div 8
        wire == t.v % 8
        arg  == DecodeVarint(rest)
    IN
    IF StringField(tag) # "" /\ wire = WireBytes THEN
        IF arg.n = 0 \/ Len(rest) - arg.n < arg.v THEN [ok |-> FALSE, memo |-> m]
        ELSE UnmarshalMerge(Drop(rest, arg.n + arg.v),
                 [m EXCEPT ![StringField(tag)] = SubSeq(rest, arg.n + 1, arg.n + arg.v)])
    ELSE IF IntField(tag) # "" /\ wire = WireVarint THEN
        IF arg.n = 0 THEN [ok |-> FALSE, memo |-> m]
        ELSE UnmarshalMerge(Drop(rest, arg.n), [m EXCEPT ![IntField(tag)] = arg.v])
    ELSE IF tag = BoolFieldTag /\ wire = WireVarint THEN
        IF arg.n = 0 THEN [ok |-> FALSE, memo |-> m]
        ELSE UnmarshalMerge(Drop(rest, arg.n), [m EXCEPT !.TransferRequest = (arg.v # 0)])
    ELSE
        LET k == SkipField(rest, wire) IN
        IF k < 0 THEN [ok |-> FALSE, memo |-> m]
        ELSE UnmarshalMerge(Drop(rest, k), m)

\* proto.Unmarshal(description, invoiceMemo) on a fresh &data.InvoiceMemo{}
Unmarshal(b) == UnmarshalMerge(b, EmptyMemo)

\* a decoding that takes the amount of the invoice on the structured path too
DecodeMemoInvoiceAmount(description, numSatoshis) ==
    [Unmarshal(description).memo EXCEPT !.Amount = numSatoshis]

\* The memo DecodePaymentRequest builds from a decoded request's description
\* and NumSatoshis (payments.go, lines 196-212)
DecodeMemo(description, numSatoshis) ==
    LET u == Unmarshal(description) IN
    IF u.ok THEN u.memo
    ELSE IF Count(description, Delim) = 2
         THEN LET invoiceData == Split(description, Delim) IN
              [u.memo EXCEPT !.Description = invoiceData[1],
                             !.PayeeName = invoiceData[2],
                             !.PayeeImageURL = invoiceData[3],
                             !.Amount = numSatoshis]
    ELSE [u.memo EXCEPT !.Description = description, !.Amount = numSatoshis]

\* proto.Marshal(invoice) (payments.go, line 147): the fields of the message
\* in the order of their numbers, a field with the zero value left out
RECURSIVE EncodeVarint(_)
EncodeVarint(v) ==
    IF v < 128 THEN <<v>> ELSE <<128 + (v % 128)>> \o EncodeVarint(v \div 128)

MarshalString(tag, s) ==
    IF s = <<>> THEN <<>> ELSE <<8 * tag + WireBytes>> \o EncodeVarint(Len(s)) \o s

MarshalInt(tag, v) ==
    IF v = 0 THEN <<>> ELSE <<8 * tag + WireVarint>> \o EncodeVarint(v)

MarshalBool(tag, v) == IF v THEN <<8 * tag + WireVarint, 1>> ELSE <<>>

Marshal(m) ==
    MarshalString(1, m.Description) \o MarshalInt(2, m.Amount)
        \o MarshalString(3, m.PayeeName) \o MarshalString(4, m.PayeeImageURL)
        \o MarshalString(5, m.PayerName) \o MarshalString(6, m.PayerImageURL)
        \o MarshalBool(BoolFieldTag, m.TransferRequest) \o MarshalInt(8, m.Expiry)

\* the memo text AddStandardInvoice gives the node (payments.go, line 172)
StandardMemo(m) == m.Description \o Delim \o m.PayeeName \o Delim \o m.PayeeImageURL

\* ------------------------------------------------------------ paymentInfo
sentPayment == 0
receivedPayment == 1
depositPayment == 2
withdrawalPayment == 3

\* data.Payment.PaymentType (messages.proto)
Payment_DEPOSIT == 0
Payment_WITHDRAWAL == 1
Payment_SENT == 2
Payment_RECEIVED == 3

\* hex.EncodeToString: two lower-case digits for every byte
HexDigit(n) == IF n < 10 THEN 48 + n ELSE 87 + n

RECURSIVE HexEncode(_)
HexEncode(b) ==
    IF b = <<>> THEN <<>>
    ELSE <<HexDigit(b[1] \div 16), HexDigit(b[1] % 16)>> \o HexEncode(Drop(b, 1))

\* -------------------------------------------- the lightning node (lnrpc)
\* cfg.RoutingNodePubKey
RoutingNodePubKey == "02routing"

\* The payment requests of the model and what DecodePayReq answers for each:
\* lnbc1, lnbc2 are requests of other nodes (paid by this account), lnbc3,
\* lnbc4 are invoices of this account.
PayReqTable ==
    [r \in {"lnbc1", "lnbc2", "lnbc3", "lnbc4"} |->
        CASE r = "lnbc1" ->
               [PaymentHash |-> HexEncode(<<161>>), Destination |-> RoutingNodePubKey,
                Description |-> <<10, 1, 65>>, NumSatoshis |-> 1, Timestamp |-> 1]
          [] r = "lnbc2" ->
               [PaymentHash |-> HexEncode(<<162>>), Destination |-> "03other",
                Description |-> <<68>> \o Delim \o <<65>> \o Delim \o <<65>>,
                NumSatoshis |-> 2, Timestamp |-> 2]
          [] r = "lnbc3" ->
               [PaymentHash |-> HexEncode(<<163>>), Destination |-> "03self",
                Description |-> <<56, 1>>, NumSatoshis |-> 1, Timestamp |-> 1]
          [] r = "lnbc4" ->
               [PaymentHash |-> HexEncode(<<164>>), Destination |-> "03self",
                Description |-> <<68, 65>>, NumSatoshis |-> 2, Timestamp |-> 2]]

OutRequests == {"lnbc1", "lnbc2"}
OwnInvoices == {"lnbc3", "lnbc4"}

\* raw payment hash (r_hash, hash_lock) of a request
RHashOf(r) ==
    CASE r = "lnbc1" -> <<161>>
      [] r = "lnbc2" -> <<162>>
      [] r = "lnbc3" -> <<163>>
      [] r = "lnbc4" -> <<164>>

\* lightningClient.DecodePayReq: an error when the RPC fails or the text is no
\* payment request
DecodePayReq(payReq, rpcOk) ==
    IF rpcOk /\ payReq \in DOMAIN PayReqTable
    THEN [err |-> "", val |-> PayReqTable[payReq]]
    ELSE [err |-> "rpc", val |-> <<>>]

\* lightningClient.LookupInvoice by raw hash: the node knows its own invoices
LookupInvoice(rHash, rpcOk) ==
    IF rpcOk /\ \E r \in OwnInvoices : RHashOf(r) = rHash
    THEN [err |-> "", PaymentRequest |-> CHOOSE r \in OwnInvoices : RHashOf(r) = rHash]
    ELSE [err |-> "rpc", PaymentRequest |-> ""]

\* DecodePaymentRequest (payments.go, lines 189-213) once DecodePayReq answered
MemoOfDecoded(decodedPayReq) ==
    IF decodedPayReq.err # "" THEN [err |-> decodedPayReq.err, val |-> EmptyMemo]
    ELSE [err |-> "",
          val |-> DecodeMemo(decodedPayReq.val.Description, decodedPayReq.val.NumSatoshis)]

\* DecodePaymentRequest (payments.go, lines 189-213)
DecodePaymentRequest(paymentRequest, rpcOk) ==
    MemoOfDecoded(DecodePayReq(paymentRequest, rpcOk))

\* ------------------------------------------------------------- the store
\* The store is the triple of the persisted records (in insertion order) and
\* the two sync cursors; the saved payment requests are kept beside it.
fetchAllAccountPayments(st) == st.payments

fetchPaymentsSyncInfo(st) == <<st.lastPaymentTime, st.lastSettleIndex>>

HasHash(st, hash) == \E i \in 1..Len(st.payments) : st.payments[i].PaymentHash = hash

\* an insert that appends whatever the payment hash is
addAccountPaymentAppend(st, accPayment, receivedIndex, sentTime) ==
    [payments |-> Append(st.payments, accPayment),
     lastSettleIndex |-> IF receivedIndex > 0 THEN receivedIndex ELSE st.lastSettleIndex,
     lastPaymentTime |-> IF sentTime > 0 THEN sentTime ELSE st.lastPaymentTime]

\* addAccountPayment: insert, idempotent by payment hash, and put the cursor
\* that the caller passes (0: leave it)
addAccountPayment(st, accPayment, receivedIndex, sentTime) ==
    [payments |-> IF HasHash(st, accPayment.PaymentHash) THEN st.payments
                  ELSE Append(st.payments, accPayment),
     lastSettleIndex |-> IF receivedIndex > 0 THEN receivedIndex ELSE st.lastSettleIndex,
     lastPaymentTime |-> IF sentTime > 0 THEN sentTime ELSE st.lastPaymentTime]

\* fetchPaymentRequest: the text saved under the key, empty when none is
fetchPaymentRequest(saved, key) == IF key \in DOMAIN saved THEN saved[key] ELSE ""

\* savePaymentRequest
savePaymentRequest(saved, key, text) ==
    [k \in DOMAIN saved \cup {key} |-> IF k = key THEN text ELSE saved[k]]

\* ------------------------------------------------ sent payment synchronizer
\* a classification that never sees a withdrawal
SentPaymentTypeAlwaysSent(decodedReq) == sentPayment

\* the payment type chosen in onNewSentPayment (payments.go, lines 389-396)
SentPaymentType(decodedReq) ==
    IF decodedReq.Destination = RoutingNodePubKey THEN withdrawalPayment ELSE sentPayment

\* the paymentInfo literal of onNewSentPayment (payments.go, lines 398-410)
SentPaymentData(paymentItem, invoiceMemo, decodedReq) ==
    [Type |-> SentPaymentType(decodedReq),
     Amount |-> paymentItem.Value,
     CreationTimestamp |-> paymentItem.CreationDate,
     Description |-> invoiceMemo.Description,
     PayeeImageURL |-> invoiceMemo.PayeeImageURL,
     PayeeName |-> invoiceMemo.PayeeName,
     PayerImageURL |-> invoiceMemo.PayerImageURL,
     PayerName |-> invoiceMemo.PayerName,
     TransferRequest |-> invoiceMemo.TransferRequest,
     PaymentHash |-> decodedReq.PaymentHash,
     RedeemTxID |-> "",
     Destination |-> decodedReq.Destination,
     PendingExpirationHeight |-> 0,
     PendingExpirationTimestamp |-> 0]

\* onNewSentPayment once the saved request is fetched and decoded: memo is
\* the answer of DecodePaymentRequest, decodedReq that of DecodePayReq
PersistSentPayment(st, paymentItem, memo, decodedReq, ok) ==
    IF ~ok THEN [st |-> st, err |-> "rpc"]
    ELSE IF memo.err # "" THEN [st |-> st, err |-> memo.err]
    ELSE IF decodedReq.err # "" THEN [st |-> st, err |-> decodedReq.err]
    ELSE [st |-> addAccountPayment(st,
                     SentPaymentData(paymentItem, memo.val, decodedReq.val),
                     0, paymentItem.CreationDate),
          err |-> ""]

\* onNewSentPayment (payments.go, lines 377-419): the store after it and its
\* error.  ok is FALSE when an RPC or the store fails while it runs.
onNewSentPayment(st, saved, paymentItem, ok) ==
    PersistSentPayment(st, paymentItem,
        IF fetchPaymentRequest(saved, paymentItem.PaymentHash) # ""
        THEN DecodePaymentRequest(fetchPaymentRequest(saved, paymentItem.PaymentHash), ok)
        ELSE [err |-> "", val |-> EmptyMemo],
        DecodePayReq(fetchPaymentRequest(saved, paymentItem.PaymentHash), ok),
        ok)

\* the loop of syncSentPayments (payments.go, lines 278-284) from item i on:
\* the cursor was read once before the loop, the error of onNewSentPayment is
\* dropped.  failing is the set of items during which an RPC or the store fails.
RECURSIVE SyncLoop(_, _, _, _, _, _)
SyncLoop(st, saved, payments, lastPaymentTime, failing, i) ==
    IF i > Len(payments) THEN st
    ELSE IF payments[i].CreationDate <= lastPaymentTime
         THEN SyncLoop(st, saved, payments, lastPaymentTime, failing, i + 1)
    ELSE SyncLoop(onNewSentPayment(st, saved, payments[i], i \notin failing).st,
                  saved, payments, lastPaymentTime, failing, i + 1)

\* syncSentPayments (payments.go, lines 271-289)
syncSentPayments(st, saved, payments, listOk, failing) ==
    IF ~listOk THEN [st |-> st, err |-> "rpc"]
    ELSE [st |-> SyncLoop(st, saved, payments, fetchPaymentsSyncInfo(st)[1], failing, 1),
          err |-> ""]

\* the values lastPaymentTime takes in the store during one pass of the loop
\* of syncSentPayments (payments.go, lines 278-284): one after each call of
\* onNewSentPayment, in the order of the calls
RECURSIVE SyncCursors(_, _, _, _, _, _)
SyncCursorsFrom(st, saved, payments, lastPaymentTime, failing, i) ==
    <<fetchPaymentsSyncInfo(st)[1]>>
        \o SyncCursors(st, saved, payments, lastPaymentTime, failing, i)

SyncCursors(st, saved, payments, lastPaymentTime, failing, i) ==
    IF i > Len(payments) THEN <<>>
    ELSE IF payments[i].CreationDate <= lastPaymentTime
         THEN SyncCursors(st, saved, payments, lastPaymentTime, failing, i + 1)
    ELSE SyncCursorsFrom(onNewSentPayment(st, saved, payments[i], i \notin failing).st,
                         saved, payments, lastPaymentTime, failing, i + 1)

\* ------------------------------------------- fixed-width integer arithmetic
\* An unsigned integer of w bytes is the sequence of its bytes, lowest first;
\* an int64 is the 8 bytes of its two's complement.
RECURSIVE ToBytes(_, _)
ToBytes(n, w) == IF w = 0 THEN <<>> ELSE <<n % 256>> \o ToBytes(n \div 256, w - 1)

RECURSIVE FromBytes(_)
FromBytes(b) == IF b = <<>> THEN 0 ELSE b[1] + 256 * FromBytes(Drop(b, 1))

RECURSIVE AddCarry(_, _)
AddCarry(b, c) ==
    IF b = <<>> THEN <<>>
    ELSE <<(b[1] + c) % 256>> \o AddCarry(Drop(b, 1), (b[1] + c) \div 256)

\* two's complement negation, modulo 256^Len(b)
Negate(b) == AddCarry([i \in 1..Len(b) |-> 255 - b[i]], 1)

\* the unsigned w-byte value of the integer d, modulo 256^w
Wrap(d, w) == IF d >= 0 THEN ToBytes(d, w) ELSE Negate(ToBytes(-d, w))

RECURSIVE Convolve(_, _, _, _)
Convolve(a, b, k, i) ==
    IF i > k THEN 0 ELSE a[i] * b[k + 1 - i] + Convolve(a, b, k, i + 1)

RECURSIVE MulFrom(_, _, _, _)
MulFrom(a, b, k, carry) ==
    IF k > Len(a) THEN <<>>
    ELSE LET t == Convolve(a, b, k, 1) + carry
         IN <<t % 256>> \o MulFrom(a, b, k + 1, t \div 256)

\* the product of two unsigned values of the same width, modulo 256^width
MulBytes(a, b) == MulFrom(a, b, 1, 0)

\* quotient and remainder of an unsigned value by a small divisor
RECURSIVE DivFrom(_, _, _, _)
DivFrom(b, d, i, rem) ==
    IF i = 0 THEN [q |-> <<>>, r |-> rem]
    ELSE LET cur  == rem * 256 + b[i]
             rest == DivFrom(b, d, i - 1, cur % d)
         IN [q |-> Append(rest.q, cur \div d), r |-> rest.r]

DivSmall(b, d) == DivFrom(b, d, Len(b), 0)

\* time.Minute, 60 000 000 000 ns, as an int64
TimeMinute == <<0, 88, 71, 248, 13, 0, 0, 0>>

\* time.Duration((htlc.ExpirationHeight - currentBlockHeight) * 10): the
\* subtraction and the product are uint32, the conversion widens to int64
MinutesToExpire(expirationHeight, currentBlockHeight) ==
    MulBytes(Wrap(expirationHeight - currentBlockHeight, 4), ToBytes(10, 4))
        \o <<0, 0, 0, 0>>

\* t.Add(d).Unix() for the time t = (sec, nsec) and the int64 duration d in
\* nanoseconds: Go's / and % truncate towards zero
AddUnix(sec, nsec, d) ==
    LET neg  == d[8] >= 128
        mag  == IF neg THEN Negate(d) ELSE d
        k1   == DivSmall(mag, 1000)
        k2   == DivSmall(k1.q, 1000)
        k3   == DivSmall(k2.q, 1000)
        dsec == FromBytes(k3.q)
        rem  == k1.r + 1000 * k2.r + 1000000 * k3.r
        ns   == IF neg THEN nsec - rem ELSE nsec + rem
    IN IF neg THEN (IF ns < 0 THEN sec - dsec - 1 ELSE sec - dsec)
       ELSE (IF ns >= 1000000000 THEN sec + dsec + 1 ELSE sec + dsec)

\* time.Now().Add(minutesToExpire * time.Minute).Unix()
PendingExpirationTimestamp(sec, nsec, expirationHeight, currentBlockHeight) ==
    AddUnix(sec, nsec,
            MulBytes(MinutesToExpire(expirationHeight, currentBlockHeight), TimeMinute))

\* --------------------------------------------------- pending HTLC resolver
\* the paymentInfo literal of createPendingPayment (payments.go, lines 343-350)
PendingPaymentData(htlc, currentBlockHeight, sec, nsec) ==
    [Type |-> IF htlc.Incoming THEN receivedPayment ELSE sentPayment,
     Amount |-> htlc.Amount,
     CreationTimestamp |-> sec,
     Description |-> <<>>, PayeeImageURL |-> <<>>, PayeeName |-> <<>>,
     PayerImageURL |-> <<>>, PayerName |-> <<>>, TransferRequest |-> FALSE,
     PaymentHash |-> <<>>, RedeemTxID |-> "", Destination |-> "",
     PendingExpirationHeight |-> htlc.ExpirationHeight,
     PendingExpirationTimestamp |->
         PendingExpirationTimestamp(sec, nsec, htlc.ExpirationHeight, currentBlockHeight)]

\* the fields createPendingPayment takes from the resolved payment request
\* (payments.go, lines 363-371)
WithRequest(paymentData, invoiceMemo, decodedReq) ==
    [paymentData EXCEPT
        !.Description = invoiceMemo.Description,
        !.PayeeImageURL = invoiceMemo.PayeeImageURL,
        !.PayeeName = invoiceMemo.PayeeName,
        !.PayerImageURL = invoiceMemo.PayerImageURL,
        !.PayerName = invoiceMemo.PayerName,
        !.TransferRequest = invoiceMemo.TransferRequest,
        !.PaymentHash = decodedReq.PaymentHash,
        !.Destination = decodedReq.Destination,
        !.CreationTimestamp = decodedReq.Timestamp]

\* createPendingPayment from the lookup of the payment request on
\* (payments.go, lines 343-374): lookup is its error and the request text
PendingOfRequest(paymentData, lookup, decodedReq, memo, rpc) ==
    IF lookup.err # "" THEN [err |-> lookup.err, val |-> <<>>, rpc |-> rpc]
    ELSE IF lookup.PaymentRequest = "" THEN [err |-> "", val |-> paymentData, rpc |-> rpc]
    ELSE IF decodedReq.err # ""
        THEN [err |-> decodedReq.err, val |-> <<>>, rpc |-> rpc \cup {"DecodePayReq"}]
    ELSE IF memo.err # ""
        THEN [err |-> memo.err, val |-> <<>>, rpc |-> rpc \cup {"DecodePayReq"}]
    ELSE [err |-> "", val |-> WithRequest(paymentData, memo.val, decodedReq.val),
          rpc |-> rpc \cup {"DecodePayReq"}]

\* the lookup of the payment request of an HTLC (payments.go, lines 326-341):
\* the invoice of an incoming HTLC, the saved request of an outgoing one,
\* both by the HTLC's hash lock
LookupRequest(htlc, saved, ok) ==
    IF htlc.Incoming THEN LookupInvoice(htlc.HashLock, ok)
    ELSE IF ~ok THEN [err |-> "store", PaymentRequest |-> ""]
    ELSE [err |-> "", PaymentRequest |-> fetchPaymentRequest(saved, htlc.HashLock)]

\* createPendingPayment (payments.go, lines 320-375).  fail names the step that
\* fails while it runs: "lookup" (LookupInvoice or fetchPaymentRequest),
\* "decode" (DecodePayReq) or "" for none; rpc is the set of node RPCs it called.
createPendingPayment(htlc, currentBlockHeight, saved, sec, nsec, fail) ==
    PendingOfRequest(PendingPaymentData(htlc, currentBlockHeight, sec, nsec),
                     LookupRequest(htlc, saved, fail # "lookup"),
                     DecodePayReq(LookupRequest(htlc, saved, fail # "lookup").PaymentRequest,
                                  fail = ""),
                     DecodePaymentRequest(
                         LookupRequest(htlc, saved, fail # "lookup").PaymentRequest, fail = ""),
                     IF htlc.Incoming THEN {"LookupInvoice"} ELSE {})

\* a loop that leaves out the HTLC it cannot resolve
PendingStepSkipping(acc, pendingItem) ==
    IF pendingItem.err # "" THEN [acc EXCEPT !.rpc = acc.rpc \cup pendingItem.rpc]
    ELSE [err |-> "", val |-> Append(acc.val, pendingItem.val),
          rpc |-> acc.rpc \cup pendingItem.rpc]

\* the loops of getPendingPayments (payments.go, lines 306-314) over the
\* pending HTLCs of all channels, from HTLC i on; failing gives the step that
\* fails for the HTLCs it is defined on
PendingStep(acc, pendingItem) ==
    IF pendingItem.err # ""
    THEN [err |-> pendingItem.err, val |-> <<>>, rpc |-> acc.rpc \cup pendingItem.rpc]
    ELSE [err |-> "", val |-> Append(acc.val, pendingItem.val),
          rpc |-> acc.rpc \cup pendingItem.rpc]

RECURSIVE PendingLoop(_, _, _, _, _, _, _, _)
PendingLoop(htlcs, height, saved, sec, nsec, failing, i, acc) ==
    IF i > Len(htlcs) \/ acc.err # "" THEN acc
    ELSE PendingLoop(htlcs, height, saved, sec, nsec, failing, i + 1,
                     PendingStep(acc,
                         createPendingPayment(htlcs[i], height, saved, sec, nsec,
                             IF i \in DOMAIN failing THEN failing[i] ELSE "")))

\* a resolver that asks the node whether or not the daemon is ready
getPendingPaymentsUnguarded(saved, env) ==
    IF ~env.channelsOk THEN [err |-> "rpc", val |-> <<>>, rpc |-> {"ListChannels"}]
    ELSE IF ~env.infoOk
        THEN [err |-> "rpc", val |-> <<>>, rpc |-> {"ListChannels", "GetInfo"}]
    ELSE PendingLoop(env.htlcs, env.height, saved, env.sec, env.nsec, env.failing, 1,
                     [err |-> "", val |-> <<>>, rpc |-> {"ListChannels", "GetInfo"}])

\* getPendingPayments (payments.go, lines 291-318).  env is what the node and
\* the clock answer during the call: ready (DaemonReady), htlcs (ListChannels),
\* height (GetInfo), sec and nsec (time.Now), and which calls fail.
getPendingPayments(saved, env) ==
    IF ~env.ready THEN [err |-> "", val |-> <<>>, rpc |-> {}]
    ELSE IF ~env.channelsOk THEN [err |-> "rpc", val |-> <<>>, rpc |-> {"ListChannels"}]
    ELSE IF ~env.infoOk
        THEN [err |-> "rpc", val |-> <<>>, rpc |-> {"ListChannels", "GetInfo"}]
    ELSE PendingLoop(env.htlcs, env.height, saved, env.sec, env.nsec, env.failing, 1,
                     [err |-> "", val |-> <<>>, rpc |-> {"ListChannels", "GetInfo"}])

\* ---------------------------------------------------- payment list assembler
\* the switch of GetPayments (payments.go, lines 93-102)
PaymentTypeOf(type) ==
    CASE type = sentPayment -> Payment_SENT
      [] type = receivedPayment -> Payment_RECEIVED
      [] type = depositPayment -> Payment_DEPOSIT
      [] type = withdrawalPayment -> Payment_WITHDRAWAL

\* the data.Payment of a paymentInfo (payments.go, lines 75-92)
PaymentItem(payment) ==
    [Type |-> PaymentTypeOf(payment.Type),
     Amount |-> payment.Amount,
     CreationTimestamp |-> payment.CreationTimestamp,
     RedeemTxID |-> payment.RedeemTxID,
     PaymentHash |-> payment.PaymentHash,
     Destination |-> payment.Destination,
     InvoiceMemo |-> [Description |-> payment.Description,
                      Amount |-> payment.Amount,
                      PayeeImageURL |-> payment.PayeeImageURL,
                      PayeeName |-> payment.PayeeName,
                      PayerImageURL |-> payment.PayerImageURL,
                      PayerName |-> payment.PayerName,
                      TransferRequest |-> payment.TransferRequest,
                      Expiry |-> 0],
     PendingExpirationHeight |-> payment.PendingExpirationHeight,
     PendingExpirationTimestamp |-> payment.PendingExpirationTimestamp]

\* a less function that orders the oldest payment first
LessAscending(a, b) == a.CreationTimestamp < b.CreationTimestamp

\* the less function given to sort.Slice (payments.go, line 108)
Less(a, b) == a.CreationTimestamp > b.CreationTimestamp

\* sort.Slice on a list of at most 12 elements is an insertion sort: each
\* element moves left while it is less than its left neighbour
RECURSIVE InsertLeft(_, _)
InsertLeft(sorted, x) ==
    IF sorted = <<>> \/ ~Less(x, sorted[Len(sorted)]) THEN Append(sorted, x)
    ELSE Append(InsertLeft(SubSeq(sorted, 1, Len(sorted) - 1), x), sorted[Len(sorted)])

RECURSIVE InsertionSort(_, _, _)
InsertionSort(list, i, acc) ==
    IF i > Len(list) THEN acc
    ELSE InsertionSort(list, i + 1, InsertLeft(acc, list[i]))

\* a merge that forgets the pending payments
RawPaymentsPersistedOnly(persisted, pendingPayments) == persisted

\* rawPayments = append(rawPayments, pendingPayments...)
RawPayments(persisted, pendingPayments) == persisted \o pendingPayments

\* GetPayments (payments.go, lines 72-112) once both fetches have answered
AssemblePayments(persisted, pending) ==
    IF pending.err # "" THEN [err |-> pending.err, val |-> <<>>]
    ELSE [err |-> "",
          val |-> InsertionSort(
                      [i \in 1..Len(RawPayments(persisted, pending.val)) |->
                          PaymentItem(RawPayments(persisted, pending.val)[i])],
                      1, <<>>)]

\* GetPayments (payments.go, lines 61-113)
GetPayments(st, saved, env) ==
    IF ~env.fetchOk THEN [err |-> "store", val |-> <<>>]
    ELSE AssemblePayments(fetchAllAccountPayments(st), getPendingPayments(saved, env))

\* ------------------------------------------------ invoice settlement watcher
\* the payment type chosen in onNewReceivedPayment (payments.go, lines 430-433)
ReceivedPaymentType(invoiceMemo) ==
    IF invoiceMemo.TransferRequest THEN depositPayment ELSE receivedPayment

\* the paymentInfo literal of onNewReceivedPayment (payments.go, lines 435-446)
ReceivedPaymentData(invoice, invoiceMemo) ==
    [Type |-> ReceivedPaymentType(invoiceMemo),
     Amount |-> invoice.AmtPaidSat,
     CreationTimestamp |-> invoice.SettleDate,
     Description |-> invoiceMemo.Description,
     PayeeImageURL |-> invoiceMemo.PayeeImageURL,
     PayeeName |-> invoiceMemo.PayeeName,
     PayerImageURL |-> invoiceMemo.PayerImageURL,
     PayerName |-> invoiceMemo.PayerName,
     TransferRequest |-> invoiceMemo.TransferRequest,
     PaymentHash |-> HexEncode(invoice.RHash),
     RedeemTxID |-> "",
     Destination |-> "",
     PendingExpirationHeight |-> 0,
     PendingExpirationTimestamp |-> 0]

\* onNewReceivedPayment once the invoice's request is decoded; "panic" is the
\* nil dereference of line 431 for an invoice without a payment request
PersistReceivedPayment(st, invoice, memo, ok) ==
    IF memo.err # "" THEN [st |-> st, err |-> memo.err, notified |-> <<>>]
    ELSE IF invoice.PaymentRequest = "" THEN [st |-> st, err |-> "panic", notified |-> <<>>]
    ELSE IF ~ok THEN [st |-> st, err |-> "store", notified |-> <<>>]
    ELSE [st |-> addAccountPayment(st, ReceivedPaymentData(invoice, memo.val),
                                   invoice.SettleIndex, 0),
          err |-> "",
          notified |-> <<"INVOICE_PAID", "ACCOUNT_CHANGED">>]

\* onNewReceivedPayment (payments.go, lines 421-460): the store after it, its
\* error and the notifications it emitted
onNewReceivedPayment(st, invoice, ok) ==
    PersistReceivedPayment(st, invoice,
        IF invoice.PaymentRequest # ""
        THEN DecodePaymentRequest(invoice.PaymentRequest, ok)
        ELSE [err |-> "", val |-> EmptyMemo],
        ok)

\* a watcher that handles every invoice of the stream, settled or not
OnInvoiceUnfiltered(st, invoice, ok) == onNewReceivedPayment(st, invoice, ok)

\* what the watcher does with an invoice of the stream (payments.go, lines
\* 260-266): only a settled one is handled
OnInvoice(st, invoice, ok) ==
    IF invoice.Settled THEN onNewReceivedPayment(st, invoice, ok)
    ELSE [st |-> st, err |-> "", notified |-> <<>>]

\* GetRelatedInvoice (payments.go, lines 224-240) once DecodePayReq answered
RelatedInvoice(decodedPayReq, u, lookupOk, settled) ==
    IF decodedPayReq.err # "" THEN [err |-> decodedPayReq.err, val |-> <<>>]
    ELSE IF ~u.ok THEN [err |-> "memo", val |-> <<>>]
    ELSE IF ~lookupOk THEN [err |-> "rpc", val |-> <<>>]
    ELSE [err |-> "",
          val |-> [Memo |-> u.memo,
                   AmtPaid |-> IF settled THEN decodedPayReq.val.NumSatoshis ELSE 0,
                   Settled |-> settled]]

\* GetRelatedInvoice (payments.go, lines 218-241)
GetRelatedInvoice(paymentRequest, decodeOk, lookupOk, settled) ==
    RelatedInvoice(DecodePayReq(paymentRequest, decodeOk),
                   IF DecodePayReq(paymentRequest, decodeOk).err = ""
                   THEN Unmarshal(DecodePayReq(paymentRequest, decodeOk).val.Description)
                   ELSE [ok |-> FALSE, memo |-> EmptyMemo],
                   lookupOk, settled)

\* a send that takes a payment the node reports as failed for a payment made
SendPaymentUnchecked(st, saved, payments, paymentRequest, amountSatoshi, out, decodedReq) ==
    IF decodedReq.err # ""
        THEN [st |-> st, saved |-> saved, payments |-> payments, err |-> decodedReq.err]
    ELSE [st |-> syncSentPayments(st,
                     savePaymentRequest(saved, decodedReq.val.PaymentHash, paymentRequest),
                     Append(payments, [PaymentHash |-> decodedReq.val.PaymentHash,
                                       Value |-> amountSatoshi,
                                       CreationDate |-> out.date]),
                     out.listOk, out.failing).st,
          saved |-> savePaymentRequest(saved, decodedReq.val.PaymentHash, paymentRequest),
          payments |-> Append(payments, [PaymentHash |-> decodedReq.val.PaymentHash,
                                         Value |-> amountSatoshi,
                                         CreationDate |-> out.date]),
          err |-> ""]

\* SendPaymentForRequest (payments.go, lines 119-141).  out is what happens
\* during the call: fail names the step that fails ("decode", "save", "send",
\* "payment": a non-empty PaymentError) or is "none"; date is the creation
\* date the node gives the payment; listOk and failing are those of the
\* synchronizer pass that follows.
SendPaymentWith(st, saved, payments, paymentRequest, amountSatoshi, out, decodedReq) ==
    IF decodedReq.err # ""
        THEN [st |-> st, saved |-> saved, payments |-> payments, err |-> decodedReq.err]
    ELSE IF out.fail = "save"
        THEN [st |-> st, saved |-> saved, payments |-> payments, err |-> "store"]
    ELSE IF out.fail = "send"
        THEN [st |-> st, payments |-> payments, err |-> "rpc",
              saved |-> savePaymentRequest(saved, decodedReq.val.PaymentHash, paymentRequest)]
    ELSE IF out.fail = "payment"
        THEN [st |-> st, payments |-> payments, err |-> "payment",
              saved |-> savePaymentRequest(saved, decodedReq.val.PaymentHash, paymentRequest)]
    ELSE [st |-> syncSentPayments(st,
                     savePaymentRequest(saved, decodedReq.val.PaymentHash, paymentRequest),
                     Append(payments, [PaymentHash |-> decodedReq.val.PaymentHash,
                                       Value |-> amountSatoshi,
                                       CreationDate |-> out.date]),
                     out.listOk, out.failing).st,
          saved |-> savePaymentRequest(saved, decodedReq.val.PaymentHash, paymentRequest),
          payments |-> Append(payments, [PaymentHash |-> decodedReq.val.PaymentHash,
                                         Value |-> amountSatoshi,
                                         CreationDate |-> out.date]),
          err |-> ""]

SendPaymentForRequest(st, saved, payments, paymentRequest, amountSatoshi, out) ==
    SendPaymentWith(st, saved, payments, paymentRequest, amountSatoshi, out,
                    DecodePayReq(paymentRequest, out.fail # "decode"))

\* ------------------------------------------------------------ the program
VARIABLES
    store,      \* the persisted records and the two sync cursors
    saved,      \* the saved payment requests, by key
    ledger,     \* the node's list of completed outgoing payments
    events,     \* the node's settled invoices, in settle order
    watcher,    \* the watcher goroutine: pc, index of the next settled event
    res,        \* the call of the API that has just returned, and its result
    input,      \* the input of the codec specification
    passes      \* the synchronizer passes running concurrently: each one's position

vars == <<store, saved, ledger, events, watcher, res, input, passes>>

Dates == 1..MaxDate
Nsecs == {0, 999999999}
Heights == {100}
ExpirationHeights == {99, 106}

\* a hash lock the node has no invoice for
UnknownHash == <<166>>

\* the in-flight HTLCs ListChannels may report
Htlcs ==
    [Incoming : {TRUE}, Amount : {1}, ExpirationHeight : ExpirationHeights,
     HashLock : {RHashOf("lnbc3"), UnknownHash}]
    \cup
    [Incoming : {FALSE}, Amount : {1}, ExpirationHeight : ExpirationHeights,
     HashLock : {RHashOf("lnbc2")}]

RECURSIVE SeqsUpTo(_, _)
SeqsUpTo(S, n) ==
    IF n = 0 THEN {<<>>}
    ELSE LET shorter == SeqsUpTo(S, n - 1)
         IN shorter \cup {Append(q, x) : q \in {t \in shorter : Len(t) = n - 1}, x \in S}

NoStore == [payments |-> <<>>, lastPaymentTime |-> 0, lastSettleIndex |-> 0]
NoRes == [op |-> "none", err |-> ""]

Init ==
    /\ store = NoStore
    /\ saved = <<>>
    /\ ledger = <<>>
    /\ events = <<>>
    /\ watcher = [pc |-> "off", next |-> 0]
    /\ res = NoRes
    /\ input = <<>>
    /\ passes = <<>>

InLedger(hash) == \E i \in 1..Len(ledger) : ledger[i].PaymentHash = hash

\* the node settles one of the account's invoices
InvoiceSettled ==
    \E r \in OwnInvoices :
        /\ \A i \in 1..Len(events) : events[i].PaymentRequest # r
        /\ events' = Append(events, [Settled |-> TRUE, SettleIndex |-> Len(events) + 1,
                                     SettleDate |-> Len(events) + 1,
                                     AmtPaidSat |-> PayReqTable[r].NumSatoshis,
                                     PaymentRequest |-> r, RHash |-> RHashOf(r)])
        /\ res' = NoRes
        /\ UNCHANGED <<store, saved, ledger, watcher, input, passes>>

\* the items of a ledger of n payments a pass may fail on: at most one
FailingSets(n) == {{}} \cup {{i} : i \in 1..n}

SendOutcomes ==
    {[fail |-> f, date |-> d, listOk |-> l, failing |-> fl] :
        f \in {"none", "decode", "save", "send", "payment"}, d \in Dates,
        l \in BOOLEAN, fl \in FailingSets(Len(ledger) + 1)}

SendPaymentForRequestCall ==
    \E r \in OutRequests, out \in SendOutcomes :
        /\ out.fail = "none" => Len(ledger) < MaxLedger
        \* the node refuses to pay an invoice twice
        /\ InLedger(PayReqTable[r].PaymentHash) => out.fail # "none"
        /\ out.fail # "none" => (out.date = 1 /\ out.listOk /\ out.failing = {})
        /\ \E r2 \in {SendPaymentForRequest(store, saved, ledger, r,
                                               PayReqTable[r].NumSatoshis, out)} :
              /\ store' = r2.st
              /\ saved' = r2.saved
              /\ ledger' = r2.payments
              /\ res' = [op |-> "SendPaymentForRequest", err |-> r2.err,
                         fail |-> out.fail, before |-> store]
        /\ UNCHANGED <<events, watcher, input, passes>>

syncSentPaymentsCall ==
    \E listOk \in BOOLEAN, failing \in FailingSets(Len(ledger)) :
        /\ ~listOk => failing = {}
        /\ \E r2 \in {syncSentPayments(store, saved, ledger, listOk, failing)} :
              /\ store' = r2.st
              /\ res' = [op |-> "syncSentPayments", err |-> r2.err, before |-> store,
                         failing |-> failing,
                         cursors |-> IF listOk
                                     THEN SyncCursorsFrom(store, saved, ledger,
                                              fetchPaymentsSyncInfo(store)[1], failing, 1)
                                     ELSE <<fetchPaymentsSyncInfo(store)[1]>>,
                         advanced |-> r2.st.lastPaymentTime # store.lastPaymentTime,
                         rerun |-> /\ res.op = "syncSentPayments"
                                   /\ res.err = ""
                                   /\ res.failing = {}
                                   /\ res.advanced]
        /\ UNCHANGED <<saved, ledger, events, watcher, input, passes>>

\* watchPayments (payments.go, lines 243-269) up to the start of its goroutine
watchPaymentsCall ==
    \E listOk \in BOOLEAN, failing \in FailingSets(Len(ledger)), subscribeOk \in BOOLEAN :
        /\ watcher.pc = "off"
        /\ ~listOk => failing = {}
        /\ \E r2 \in {syncSentPayments(store, saved, ledger, listOk, failing)} :
              /\ store' = r2.st
              /\ watcher' = [pc |-> IF subscribeOk THEN "on" ELSE "crashed",
                             next |-> fetchPaymentsSyncInfo(r2.st)[2] + 1]
        /\ res' = [op |-> "watchPayments", err |-> ""]
        /\ UNCHANGED <<saved, ledger, events, input, passes>>

\* the invoices stream.Recv may return next: the settled invoice the watcher
\* has not received yet, or the update of an invoice that is not settled
StreamHead ==
    {events[i] : i \in {watcher.next} \cap 1..Len(events)}
    \cup {[Settled |-> FALSE, SettleIndex |-> 0, SettleDate |-> 0, AmtPaidSat |-> 0,
           PaymentRequest |-> r, RHash |-> RHashOf(r)] :
             r \in {q \in OwnInvoices : \A i \in 1..Len(events) : events[i].PaymentRequest # q}}

\* a watcher that goes on receiving after an error of stream.Recv
AfterRecvErrorRetrying(w) == w

\* the watcher goroutine after an error of stream.Recv (payments.go, lines
\* 256-259): it returns
AfterRecvError(w) == [w EXCEPT !.pc = "stopped"]

\* one turn of the loop of the watcher goroutine (payments.go, lines 253-267)
WatcherRecv ==
    /\ watcher.pc = "on"
    /\ \/ \* stream.Recv fails
          /\ watcher' = AfterRecvError(watcher)
          /\ res' = [op |-> "Recv", err |-> "recv"]
          /\ UNCHANGED store
       \/ \* the next settled invoice, or an invoice that is not settled yet
          \E ok \in BOOLEAN, invoice \in StreamHead :
             \E r2 \in {OnInvoice(store, invoice, ok)} :
                /\ store' = r2.st
                /\ watcher' = [pc |-> CASE r2.err = "" -> "on"
                                        [] r2.err = "panic" -> "crashed"
                                        [] OTHER -> "stopped",
                               next |-> IF invoice.Settled THEN watcher.next + 1
                                        ELSE watcher.next]
                /\ res' = [op |-> "Recv", err |-> r2.err, invoice |-> invoice,
                           notified |-> r2.notified, before |-> store]
    /\ UNCHANGED <<saved, ledger, events, input, passes>>

\* the process ends and starts again: the store is durable, the rest is lost
Restart ==
    /\ watcher.pc # "off"
    /\ watcher' = [pc |-> "off", next |-> 0]
    /\ res' = NoRes
    /\ UNCHANGED <<store, saved, ledger, events, input, passes>>

Next ==
    \/ InvoiceSettled
    \/ SendPaymentForRequestCall
    \/ syncSentPaymentsCall
    \/ watchPaymentsCall
    \/ WatcherRecv
    \/ Restart

Spec == Init /\ [][Next]_vars

\* ------------------------------------------------ the queries of the API
\* The queries read the store and ask the node and change neither; each is
\* applied once to every store the program reaches by paying the requests of
\* a ledger, running one synchronizer pass and receiving the settled invoices
\* of a stream.
RECURSIVE SavedFor(_, _)
SavedFor(payments, i) ==
    IF i > Len(payments) THEN <<>>
    ELSE savePaymentRequest(SavedFor(payments, i + 1), payments[i].PaymentHash,
             CHOOSE r \in OutRequests : PayReqTable[r].PaymentHash = payments[i].PaymentHash)

RECURSIVE Received(_, _, _)
Received(st, evs, i) ==
    IF i > Len(evs) THEN st
    ELSE Received(onNewReceivedPayment(st, evs[i], TRUE).st, evs, i + 1)

SettledEvent(r, index) ==
    [Settled |-> TRUE, SettleIndex |-> index, SettleDate |-> index,
     AmtPaidSat |-> PayReqTable[r].NumSatoshis, PaymentRequest |-> r,
     RHash |-> RHashOf(r)]

Distinct(q) == \A i, j \in 1..Len(q) : i # j => q[i] # q[j]

QueryLedgers ==
    {l \in SeqsUpTo([PaymentHash : {PayReqTable[r].PaymentHash : r \in OutRequests},
                     Value : {1}, CreationDate : Dates], MaxLedger) :
        Distinct([i \in 1..Len(l) |-> l[i].PaymentHash])}

QueryEvents ==
    {[i \in 1..Len(q) |-> SettledEvent(q[i], i)] :
        q \in {t \in SeqsUpTo(OwnInvoices, 2) : Distinct(t)}}

QueryInit ==
    \E l \in QueryLedgers, evs \in QueryEvents :
        /\ ledger = l
        /\ events = evs
        /\ saved = SavedFor(l, 1)
        /\ store = Received(syncSentPayments(NoStore, SavedFor(l, 1), l, TRUE, {}).st,
                            evs, 1)
        /\ watcher = [pc |-> "on", next |-> Len(evs) + 1]
        /\ res = NoRes
        /\ input = <<>>
        /\ passes = <<>>

\* whether the daemon is ready and which call fails during one query: at most
\* one does
ReadyAndFailure ==
    ({TRUE} \X {"none", "channels", "info", "fetch", "lookup", "decode"})
    \cup ({FALSE} \X {"none", "channels"})

\* what the node, the store and the clock answer during one query
PendingEnvs ==
    {[ready |-> rf[1], channelsOk |-> rf[2] # "channels", infoOk |-> rf[2] # "info",
      fetchOk |-> rf[2] # "fetch", htlcs |-> h, height |-> ht, sec |-> s, nsec |-> ns,
      failing |-> IF rf[2] \in {"lookup", "decode"} /\ h # <<>>
                  THEN Len(h) :> rf[2] ELSE <<>>] :
        rf \in ReadyAndFailure, h \in SeqsUpTo(Htlcs, MaxHtlcs), ht \in Heights,
        s \in {1, MaxDate}, ns \in Nsecs}

\* a query that persists the pending payments it computed
StoreAfterQueryPersisting(st, pendingPayments) ==
    [st EXCEPT !.payments = st.payments \o pendingPayments]

\* the store after getPendingPayments or GetPayments (payments.go, lines
\* 61-113 and 291-318): neither calls addAccountPayment, the pending payments
\* live in the returned slice only
StoreAfterQuery(st, pendingPayments) == st

getPendingPaymentsCall ==
    /\ res.op = "none"
    /\ \E env \in PendingEnvs :
           /\ env.fetchOk
           /\ res' = [op |-> "getPendingPayments", env |-> env]
                     @@ getPendingPayments(saved, env)
           /\ store' = StoreAfterQuery(store, getPendingPayments(saved, env).val)
           /\ UNCHANGED <<saved, ledger, events, watcher, input, passes>>

GetPaymentsCall ==
    /\ res.op = "none"
    /\ \E env \in PendingEnvs :
           /\ res' = [op |-> "GetPayments", env |-> env,
                      persisted |-> fetchAllAccountPayments(store),
                      pending |-> getPendingPayments(saved, env).val]
                     @@ GetPayments(store, saved, env)
           /\ store' = StoreAfterQuery(store, getPendingPayments(saved, env).val)
           /\ UNCHANGED <<saved, ledger, events, watcher, input, passes>>

DecodePaymentRequestCall ==
    /\ res.op = "none"
    /\ \E r \in DOMAIN PayReqTable, ok \in BOOLEAN :
           /\ res' = [op |-> "DecodePaymentRequest", request |-> r]
                     @@ DecodePaymentRequest(r, ok)
           /\ UNCHANGED <<store, saved, ledger, events, watcher, input, passes>>

GetRelatedInvoiceCall ==
    /\ res.op = "none"
    /\ \E r \in DOMAIN PayReqTable, decodeOk \in BOOLEAN, lookupOk \in BOOLEAN :
           /\ res' = [op |-> "GetRelatedInvoice", request |-> r]
                     @@ GetRelatedInvoice(r, decodeOk, lookupOk,
                                          \E i \in 1..Len(events) : events[i].PaymentRequest = r)
           /\ UNCHANGED <<store, saved, ledger, events, watcher, input, passes>>

QueryNext ==
    \/ getPendingPaymentsCall
    \/ GetPaymentsCall
    \/ DecodePaymentRequestCall
    \/ GetRelatedInvoiceCall

SpecQuery == QueryInit /\ [][QueryNext]_vars

\* ------------------------------------------------------- the memo codec
\* The descriptions of the codec specification: texts of at most MaxTokens
\* tokens, a token being the delimiter " | ", the letters "A" and "D", the
\* digit "8" or the two bytes that open a one-byte description field.
Tokens == {Delim, <<65>>, <<68>>, <<56>>, <<10, 1>>}

RECURSIVE Flatten(_)
Flatten(q) == IF q = <<>> THEN <<>> ELSE q[1] \o Flatten(Drop(q, 1))

Descriptions == {Flatten(q) : q \in SeqsUpTo(Tokens, MaxTokens)}

CodecInit ==
    /\ input \in [description : Descriptions, amount : 0..MaxAmount]
    /\ passes = <<>>
    /\ store = NoStore
    /\ saved = <<>>
    /\ ledger = <<>>
    /\ events = <<>>
    /\ watcher = [pc |-> "off", next |-> 0]
    /\ res = NoRes

\* the decoding of DecodePaymentRequest for a request with this description
\* and amount
DecodeCall ==
    /\ res.op = "none"
    /\ res' = [op |-> "Decode", err |-> "",
               val |-> DecodeMemo(input.description, input.amount)]
    /\ UNCHANGED <<store, saved, ledger, events, watcher, input, passes>>

CodecNext == DecodeCall

SpecCodec == CodecInit /\ [][CodecNext]_vars

\* ------------------------------------------------- the invoices of the API
\* AddInvoice and AddStandardInvoice applied to a memo, and the decoding of
\* the description of the request the node makes of it
Memos ==
    [Description : {<<>>, <<65>>, <<65, 32, 124, 32, 68>>},
     Amount : {0, 1, 200},
     PayeeName : {<<>>, <<68>>},
     PayeeImageURL : {<<>>, <<65>>},
     PayerName : {<<>>, <<68>>},
     PayerImageURL : {<<>>},
     TransferRequest : BOOLEAN,
     Expiry : {0, 1}]

InvoiceInit ==
    /\ input \in [memo : Memos, amount : 0..MaxAmount]
    /\ passes = <<>>
    /\ store = NoStore
    /\ saved = <<>>
    /\ ledger = <<>>
    /\ events = <<>>
    /\ watcher = [pc |-> "off", next |-> 0]
    /\ res = NoRes

\* AddInvoice (payments.go, lines 146-165), then the decoding of
\* DecodePaymentRequest for a request with the description it gave
AddInvoiceCall ==
    /\ res.op = "none"
    /\ \E memo \in {Marshal(input.memo)} :
          res' = [op |-> "AddInvoice", err |-> "", description |-> memo,
                  val |-> DecodeMemo(memo, input.amount)]
    /\ UNCHANGED <<store, saved, ledger, events, watcher, input, passes>>

\* AddStandardInvoice (payments.go, lines 170-184), then the same decoding
AddStandardInvoiceCall ==
    /\ res.op = "none"
    /\ \E memo \in {StandardMemo(input.memo)} :
          res' = [op |-> "AddStandardInvoice", err |-> "", description |-> memo,
                  val |-> DecodeMemo(memo, input.amount)]
    /\ UNCHANGED <<store, saved, ledger, events, watcher, input, passes>>

InvoiceNext ==
    \/ AddInvoiceCall
    \/ AddStandardInvoiceCall

SpecInvoice == InvoiceInit /\ [][InvoiceNext]_vars

\* ------------------------------------------- concurrent synchronizer passes
\* syncSentPayments is called by SendPaymentForRequest (payments.go, line 139)
\* and by watchPayments (line 244) and takes no lock: two passes may run at
\* once.  Each pass is a sequence of steps, one per statement that asks the
\* node or the store; the store runs each of its calls as one transaction.
Passes == {1, 2}

IdlePass == [pc |-> "idle", payments |-> <<>>, lastPaymentTime |-> 0, i |-> 0, err |-> ""]

ConcurrentInit ==
    \E l \in QueryLedgers :
        /\ ledger = l
        /\ saved = SavedFor(l, 1)
        /\ store = NoStore
        /\ events = <<>>
        /\ watcher = [pc |-> "off", next |-> 0]
        /\ res = NoRes
        /\ input = <<>>
        /\ passes = [p \in Passes |-> IdlePass]

\* ListPayments (payments.go, lines 273-276): the pass takes the ledger as it
\* is now, or returns the error of the RPC
PassListPayments(p) ==
    /\ passes[p].pc = "idle"
    /\ \E listOk \in BOOLEAN :
          passes' = [passes EXCEPT ![p] =
                        IF listOk THEN [@ EXCEPT !.pc = "listed", !.payments = ledger]
                        ELSE [@ EXCEPT !.pc = "done", !.err = "rpc"]]
    /\ UNCHANGED <<store, saved, ledger, events, watcher, res, input>>

\* fetchPaymentsSyncInfo (payments.go, line 277): the pass reads the cursor,
\* once, into its local lastPaymentTime
PassFetchSyncInfo(p) ==
    /\ passes[p].pc = "listed"
    /\ passes' = [passes EXCEPT ![p] = [@ EXCEPT !.pc = "loop", !.i = 1,
                      !.lastPaymentTime = fetchPaymentsSyncInfo(store)[1]]]
    /\ UNCHANGED <<store, saved, ledger, events, watcher, res, input>>

\* one iteration of the loop (payments.go, lines 278-284): an item not later
\* than the local lastPaymentTime is skipped, another one goes to
\* onNewSentPayment, whose error is dropped
PassLoopStep(p) ==
    /\ passes[p].pc = "loop"
    /\ passes[p].i <= Len(passes[p].payments)
    /\ passes' = [passes EXCEPT ![p] = [@ EXCEPT !.i = @ + 1]]
    /\ IF passes[p].payments[passes[p].i].CreationDate <= passes[p].lastPaymentTime
       THEN store' = store
       ELSE \E ok \in BOOLEAN :
               store' = onNewSentPayment(store, saved,
                                         passes[p].payments[passes[p].i], ok).st
    /\ UNCHANGED <<saved, ledger, events, watcher, res, input>>

\* the end of the loop (payments.go, line 286): return nil
PassReturn(p) ==
    /\ passes[p].pc = "loop"
    /\ passes[p].i > Len(passes[p].payments)
    /\ passes' = [passes EXCEPT ![p] = [@ EXCEPT !.pc = "done"]]
    /\ UNCHANGED <<store, saved, ledger, events, watcher, res, input>>

ConcurrentNext ==
    \E p \in Passes :
        \/ PassListPayments(p)
        \/ PassFetchSyncInfo(p)
        \/ PassLoopStep(p)
        \/ PassReturn(p)

SpecConcurrent == ConcurrentInit /\ [][ConcurrentNext]_vars

\* ================================================================ claims
Occurrences(x, list) == Cardinality({i \in 1..Len(list) : list[i] = x})

\* C1: the list GetPayments returns is sorted by creation timestamp, most
\* recent first: no entry is older than the entry that follows it, whatever
\* the order in which the records were inserted.
C1_SortedDescending ==
    (res.op = "GetPayments" /\ res.err = "") =>
        \A i \in 1..Len(res.val) - 1 :
            res.val[i].CreationTimestamp >= res.val[i + 1].CreationTimestamp

\* a list of three payments or more whose records were inserted oldest first
C1_Witness ==
    /\ res.op = "GetPayments" /\ res.err = ""
    /\ Len(res.persisted) >= 2 /\ Len(res.pending) >= 1
    /\ res.persisted[1].CreationTimestamp < res.persisted[2].CreationTimestamp
    /\ res.val[1].CreationTimestamp > res.val[Len(res.val)].CreationTimestamp

\* C2: a synchronizer pass that follows a completed pass which advanced the
\* cursor, nothing having changed in between, persists no new record and
\* leaves lastSentPaymentTimestamp as it was.
C2_RerunChangesNothing ==
    (res.op = "syncSentPayments" /\ res.err = "" /\ res.rerun) =>
        /\ store.payments = res.before.payments
        /\ store.lastPaymentTime = res.before.lastPaymentTime

C4_CursorsMonotonic ==
    [][/\ store'.lastPaymentTime >= store.lastPaymentTime
       /\ store'.lastSettleIndex >= store.lastSettleIndex
       /\ res'.op = "syncSentPayments" =>
              \A k \in 1..Len(res'.cursors) - 1 : res'.cursors[k] <= res'.cursors[k + 1]]_vars

\* C5: a list GetPayments returns holds each persisted record once, each
\* pending payment of the resolver once (one for every in-flight HTLC when
\* the daemon is ready), and nothing else.
C5_ExactMerge ==
    (res.op = "GetPayments" /\ res.err = "") =>
        /\ Len(res.val) = Len(res.persisted) + Len(res.pending)
        /\ Len(res.pending) = IF res.env.ready THEN Len(res.env.htlcs) ELSE 0
        /\ \A i \in 1..Len(res.val) :
              Occurrences(res.val[i], res.val) =
                  Occurrences(res.val[i],
                      [k \in 1..Len(res.persisted \o res.pending) |->
                          PaymentItem((res.persisted \o res.pending)[k])])

\* a list made of two persisted records and a pending payment
C5_Witness ==
    /\ res.op = "GetPayments" /\ res.err = ""
    /\ Len(res.persisted) >= 2 /\ Len(res.pending) >= 1
    /\ Len(res.val) >= 3

OutHashes == {PayReqTable[r].PaymentHash : r \in OutRequests}
OwnHashes == {PayReqTable[r].PaymentHash : r \in OwnInvoices}
RequestOf(hash) == CHOOSE r \in DOMAIN PayReqTable : PayReqTable[r].PaymentHash = hash

\* C6: a record of the synchronizer (its hash is that of a paid request) is a
\* withdrawal when the request's destination is the routing node and a sent
\* payment otherwise; a record of the watcher (its hash is that of an own
\* invoice) is a deposit when its memo asks for a transfer and a received
\* payment otherwise.
C6_TypeBySource ==
    \A i \in 1..Len(store.payments) :
        LET p == store.payments[i] IN
        /\ p.PaymentHash \in OutHashes \cup OwnHashes
        /\ p.PaymentHash \in OutHashes =>
              /\ p.Destination = PayReqTable[RequestOf(p.PaymentHash)].Destination
              /\ p.Type = IF p.Destination = RoutingNodePubKey
                          THEN withdrawalPayment ELSE sentPayment
        /\ p.PaymentHash \in OwnHashes =>
              /\ p.TransferRequest =
                    (Unmarshal(PayReqTable[RequestOf(p.PaymentHash)].Description)
                        .memo.TransferRequest)
              /\ p.Type = IF p.TransferRequest THEN depositPayment ELSE receivedPayment

\* a record of each of the four types is persisted
C6_Witness ==
    \A t \in {sentPayment, receivedPayment, depositPayment, withdrawalPayment} :
        \E i \in 1..Len(store.payments) : store.payments[i].Type = t

\* C7: when the daemon is not ready the resolver returns no pending payment
\* and no error and calls no RPC of the node.
C7_NotReadyIsEmpty ==
    (res.op = "getPendingPayments" /\ ~res.env.ready) =>
        /\ res.err = ""
        /\ res.val = <<>>
        /\ res.rpc = {}

\* the resolver ran with the daemon not ready, an HTLC in flight and a node
\* whose ListChannels fails
C7_Witness ==
    /\ res.op = "getPendingPayments"
    /\ ~res.env.ready
    /\ Len(res.env.htlcs) >= 1
    /\ ~res.env.channelsOk

\* C8: the expiration timestamp of every pending payment is the time of the
\* call plus (expirationHeight - currentBlockHeight) * 10 minutes, the
\* difference taken as a signed number: before the time of the call when the
\* HTLC is past its expiration height.
C8_SignedExpiry ==
    (res.op = "getPendingPayments" /\ res.err = "") =>
        \A i \in 1..Len(res.val) :
            res.val[i].PendingExpirationTimestamp =
                res.env.sec + 60 * 10 * (res.env.htlcs[i].ExpirationHeight - res.env.height)

\* C9: for a description that is not structurally decodable, the memo holds
\* the three split fields when the text has exactly two delimiters, and
\* otherwise the whole text as description and no other memo field; its
\* amount is the invoice's amount in both cases.
C9_Fallback ==
    (res.op = "Decode" /\ ~Unmarshal(input.description).ok) =>
        /\ res.val.Amount = input.amount
        /\ IF Count(input.description, Delim) = 2
           THEN /\ res.val.Description = Split(input.description, Delim)[1]
                /\ res.val.PayeeName = Split(input.description, Delim)[2]
                /\ res.val.PayeeImageURL = Split(input.description, Delim)[3]
           ELSE res.val = [EmptyMemo EXCEPT !.Description = input.description,
                                            !.Amount = input.amount]

\* C10: no operation that decodes a memo returns an error because the memo
\* cannot be structurally decoded.
C10_DecodeNeverFails ==
    res.op \in {"DecodePaymentRequest", "GetRelatedInvoice", "GetPayments",
                "getPendingPayments"} => res.err # "memo"


\* C11: the memo decoded from the description AddInvoice makes of a memo is
\* that memo, field by field, whatever the amount of the invoice is.
C11_RoundTrip ==
    res.op = "AddInvoice" => res.val = input.memo

\* a memo with every kind of field set, a two-byte varint among them, decoded
\* for an invoice of another amount
C11_Witness ==
    /\ res.op = "AddInvoice"
    /\ input.memo.Description # <<>> /\ input.memo.PayerName # <<>>
    /\ input.memo.Amount = 200 /\ input.memo.TransferRequest
    /\ input.memo.Expiry # 0
    /\ input.amount # input.memo.Amount
    /\ Len(res.description) > 8


\* C12: when the node answers a send with a non-empty payment error,
\* SendPaymentForRequest returns an error and the persisted records and both
\* sync cursors are what they were before the call.
C12_PaymentErrorNotPersisted ==
    (res.op = "SendPaymentForRequest" /\ res.fail = "payment") =>
        /\ res.err # ""
        /\ store = res.before

\* a payment fails while the ledger holds a payment no pass has persisted yet
C12_Witness ==
    /\ res.op = "SendPaymentForRequest" /\ res.fail = "payment"
    /\ Len(ledger) > Len(store.payments)
    /\ DOMAIN saved # {}


\* the ledger items a pass finds new, and those among them it fails on
NewItems == {i \in 1..Len(ledger) : ledger[i].CreationDate > res.before.lastPaymentTime}
FailedItems == NewItems \cap res.failing
FirstFailed == CHOOSE i \in FailedItems : \A j \in FailedItems : i <= j
MaxDateOf(S) == CHOOSE d \in {ledger[i].CreationDate : i \in S} :
                    \A i \in S : ledger[i].CreationDate <= d

\* C13: a synchronizer pass that fails on a new ledger item stops there: it
\* reports the error, persists no item that comes after the failed one, and
\* its cursor is that of the items before the failed one.
C13_FailureAborts ==
    (res.op = "syncSentPayments" /\ FailedItems # {}) =>
        /\ res.err # ""
        /\ \A j \in NewItems :
              (j > FirstFailed /\ ~HasHash(res.before, ledger[j].PaymentHash))
                  => ~HasHash(store, ledger[j].PaymentHash)
        /\ store.lastPaymentTime \in
              {res.before.lastPaymentTime}
                  \cup {ledger[k].CreationDate : k \in {i \in NewItems : i < FirstFailed}}

\* C14: at the end of a synchronizer pass every ledger payment whose creation
\* date is not after lastSentPaymentTimestamp has a persisted record.
C14_NothingSkipped ==
    (res.op = "syncSentPayments" /\ res.err = "") =>
        \A i \in 1..Len(ledger) :
            ledger[i].CreationDate <= store.lastPaymentTime
                => HasHash(store, ledger[i].PaymentHash)

\* C15: after a synchronizer pass that persisted a new record,
\* lastSentPaymentTimestamp is the greatest creation date of the ledger items
\* the pass processed.
C15_CursorIsMaximum ==
    (/\ res.op = "syncSentPayments"
     /\ Len(store.payments) > Len(res.before.payments)) =>
        store.lastPaymentTime = MaxDateOf(NewItems \ res.failing)


IsReceivedRecord(p) == p.Type \in {receivedPayment, depositPayment}

\* C17: the watcher subscribes from the persisted lastSettleIndex on.  An
\* error of a receive on the stream stops it, and a stopped watcher stays as
\* it is until the process starts again: the records of received payments
\* and lastSettleIndex do not change meanwhile.
C17_StoppedForGood ==
    [][/\ (watcher.pc = "off" /\ watcher'.pc # "off") =>
              /\ watcher'.next = fetchPaymentsSyncInfo(store)[2] + 1
              /\ store'.lastSettleIndex = store.lastSettleIndex
       /\ (res'.op = "Recv" /\ res'.err = "recv") => watcher'.pc = "stopped"
       /\ watcher.pc = "stopped" =>
              \/ watcher'.pc = "off"
              \/ /\ watcher' = watcher
                 /\ store'.lastSettleIndex = store.lastSettleIndex
                 /\ SelectSeq(store'.payments, IsReceivedRecord)
                        = SelectSeq(store.payments, IsReceivedRecord)]_vars

\* a receive has failed while a settled invoice waits in the stream, after the
\* watcher had persisted one
C17_Witness ==
    /\ res.op = "Recv" /\ res.err = "recv"
    /\ watcher.pc = "stopped"
    /\ watcher.next <= Len(events)
    /\ store.lastSettleIndex >= 1


\* the HTLCs of the call whose resolution fails
FailingHtlcs ==
    {i \in 1..Len(res.env.htlcs) :
        createPendingPayment(res.env.htlcs[i], res.env.height, saved, res.env.sec,
            res.env.nsec,
            IF i \in DOMAIN res.env.failing THEN res.env.failing[i] ELSE "").err # ""}

PendingEntries(list) == {i \in 1..Len(list) : list[i].PendingExpirationHeight # 0}

\* C19: a call of the resolver or of GetPayments leaves the persisted records,
\* both sync cursors and the saved requests as they were; no persisted record
\* is a pending one; and the pending entries of an assembled list are those
\* of the HTLCs in flight at the call, one for each.
C19_PendingNotPersisted ==
    [][/\ res'.op \in {"getPendingPayments", "GetPayments"} =>
              /\ store' = store
              /\ PendingEntries(store'.payments) = {}
       /\ (res'.op = "GetPayments" /\ res'.err = "") =>
              /\ Cardinality(PendingEntries(res'.val)) =
                    IF res'.env.ready THEN Len(res'.env.htlcs) ELSE 0
              /\ \A i \in PendingEntries(res'.val) :
                    \E k \in 1..Len(res'.env.htlcs) :
                       /\ res'.val[i].PendingExpirationHeight
                             = res'.env.htlcs[k].ExpirationHeight
                       /\ res'.val[i].Amount = res'.env.htlcs[k].Amount]_vars

\* GetPayments has listed the payment of an HTLC in flight beside the
\* persisted records, and the store holds the same records as before
C19_Witness ==
    /\ res.op = "GetPayments" /\ res.err = ""
    /\ res.env.ready /\ Len(res.env.htlcs) >= 1
    /\ store.payments # <<>>
    /\ store.payments = res.persisted
    /\ Cardinality(PendingEntries(res.val)) = Len(res.env.htlcs)


\* C20: the pending payment of an outgoing HTLC whose request was saved by
\* SendPaymentForRequest carries the payment hash, destination, description
\* and creation timestamp decoded from that request.
C20_SavedRequestFound ==
    (res.op = "getPendingPayments" /\ res.err = "" /\ res.env.ready) =>
        \A i \in 1..Len(res.env.htlcs) :
            (/\ ~res.env.htlcs[i].Incoming
             /\ HexEncode(res.env.htlcs[i].HashLock) \in DOMAIN saved) =>
                /\ res.val[i].PaymentHash = HexEncode(res.env.htlcs[i].HashLock)
                /\ res.val[i].Destination =
                      PayReqTable[saved[HexEncode(res.env.htlcs[i].HashLock)]].Destination
                /\ res.val[i].CreationTimestamp =
                      PayReqTable[saved[HexEncode(res.env.htlcs[i].HashLock)]].Timestamp
                /\ res.val[i].Description =
                      DecodePaymentRequest(saved[HexEncode(res.env.htlcs[i].HashLock)],
                                           TRUE).val.Description


\* the two concurrent passes have both returned without an error
BothPassesDone == \A p \in Passes : passes[p].pc = "done" /\ passes[p].err = ""

\* C21: under every interleaving of two concurrent synchronizer passes over
\* the same ledger no cursor update is lost: lastPaymentTime never moves
\* backwards during the interleaving, and when both passes have returned it
\* is not lower than the creation date of any record the passes persisted.
C21_NoLostCursorUpdate ==
    [][/\ store'.lastPaymentTime >= store.lastPaymentTime
       /\ BothPassesDone' =>
              \A k \in 1..Len(store'.payments) :
                  store'.payments[k].CreationTimestamp <= store'.lastPaymentTime]_vars

====
